---- MODULE Spec2Model ----
(***************************************************************************)
(* Model of the boundary visualisation and animation subsystem of          *)
(* realm-maps-demo: the animation driver (requestAnimationFrame loop), the *)
(* boundary layer installers and the MapSection component that drives      *)
(* them.  The render surface (a mapbox-gl map) is modelled as a layer      *)
(* list, a source set, a style-readiness flag and the value of             *)
(* map.loaded().                                                           *)
(***************************************************************************)
EXTENDS Integers, Sequences, FiniteSets, TLC

\* ---------------------------------------------------------------- bounds
MaxFrames == 3          \* requestAnimationFrame ids handed out in one run
MaxTimers == 3          \* pending setTimeout timers at one time
MaxPending == 2         \* registered style.load handlers, or markers calls awaiting icons
MaxSelections == 2      \* style selections made by the user in one run
MaxCalls == 4           \* direct add3DBuildingsLayer calls in one run
MaxPopups == 2
MaxObs == 2             \* observations in a list handed to calculateBounds
MaxRing == 4            \* vertices of an input ring
MaxTicks == 25          \* sampled times, in steps of period/CosSteps

\* ------------------------------------------------------ program constants
StartDelay == 100       \* ms: start, boundary and retry timers
AttachDelay == 500      \* ms: the load handler's and the style.load handlers' timers
enableAnimations == TRUE

WallsLayer    == "observation-boundary-walls"
TopEdgeLayer  == "observation-boundary-top-edge"
BaseLineLayer == "observation-boundary-base-line"
WallsSource   == "observation-boundary-walls"
OutlineSource == "observation-boundary"
BuildingsLayer == "3d-buildings"

layersToRemove == <<WallsLayer, TopEdgeLayer, BaseLineLayer>>
BoundaryLayers == {WallsLayer, TopEdgeLayer, BaseLineLayer}
BoundarySources == {WallsSource, OutlineSource}

\* the setPaintProperty calls of one frame, in program order
PaintCalls == << <<WallsLayer, "fill-extrusion-opacity">>,
                 <<TopEdgeLayer, "line-width">>,
                 <<TopEdgeLayer, "line-opacity">> >>
PaintCallSet == {PaintCalls[i] : i \in 1..Len(PaintCalls)}

VARIABLES
  layers,                    \* the map's custom layers, bottom to top
  sources,                   \* the map's custom sources
  styleReady,                \* the map's style has finished loading
  loaded,                    \* the value map.loaded() returns
  boundaryAnimationFrameId,  \* 0 models null
  rafPending,                \* ids of frame callbacks requested and not yet run or cancelled
  nextRafId,                 \* next id requestAnimationFrame hands out
  timers,                    \* pending setTimeout timers, in the order they were set
  hidden,                    \* removeBoundaryLayer was the last boundary request
  loopEnd,                   \* how the last stop/start/frame left the loop
  obs,                       \* what the last operation did
  \* --- the MapSection component
  composite,                 \* map.getSource('composite') is available
  mapStyle,                  \* the style the map was last given
  currentStyle,              \* React state currentStyle
  mapLoaded,                 \* React state mapLoaded
  styleLoaded,               \* React state styleLoaded
  dataLoaded,                \* useMapData has delivered observations and bounds
  polygon,                   \* the polygon prop
  isInitialMount,            \* isInitialMount.current
  dataDirty,                 \* the data effect is due (a dependency changed)
  styleDirty,                \* the style effect is due
  loadPending,               \* the map's 'load' event has not fired yet
  styleLoadHandlers,         \* closures registered with map.once('style.load')
  markerConts,               \* addObservationMarkers calls waiting on loadCategoryIcons
  selections,                \* style selections made so far
  activeChange,              \* a style change found the boundary shown and animated
  mapHandlers,               \* the marker handler bundles registered with map.on
  eventHandlersRef,          \* eventHandlersRef.current: a bundle, 0 models {}
  popups,                    \* the observation popups open on the map
  currentPopupRef,           \* currentPopupRef.current: a popup, 0 models null
  removed,                   \* the cleanup has run: map.remove() was called
  \* --- direct calls of the pure helpers and of add3DBuildingsLayer
  built,                     \* arguments and result of the last helper call
  calls3D,                   \* direct add3DBuildingsLayer calls made so far
  switcher                   \* the StyleSwitcherControl object and its DOM

surfaceVars == <<layers, sources, styleReady, loaded>>
animVars == <<boundaryAnimationFrameId, rafPending, nextRafId, loopEnd>>
uiVars == <<mapHandlers, eventHandlersRef, popups, currentPopupRef, removed>>
sectionVars == <<composite, mapStyle, currentStyle, mapLoaded, styleLoaded,
                 dataLoaded, polygon, isInitialMount, dataDirty, styleDirty,
                 loadPending, styleLoadHandlers, markerConts, selections,
                 activeChange, uiVars>>

helperVars == <<built, calls3D, switcher>>

vars == <<layers, sources, styleReady, loaded, boundaryAnimationFrameId,
          rafPending, nextRafId, loopEnd, timers, hidden, obs, sectionVars,
          helperVars>>

NoCall == [fn |-> "none"]

\* no StyleSwitcherControl has been constructed
NoSwitcher == [made |-> FALSE]

\* -------------------------------------------------------- render surface
getLayer(ls, id) == \E i \in 1..Len(ls) : ls[i] = id

Count(ls, id) == Cardinality({i \in 1..Len(ls) : ls[i] = id})

removeLayer(ls, id) == SelectSeq(ls, LAMBDA x : x # id)

IndexOf(ls, id) == CHOOSE i \in 1..Len(ls) : ls[i] = id /\ \A j \in 1..(i-1) : ls[j] # id

\* map.addLayer(layer, beforeId): below beforeId when given and present, else on top
addLayer(ls, id, before) ==
  IF before # "" /\ getLayer(ls, before)
  THEN LET k == IndexOf(ls, before)
       IN SubSeq(ls, 1, k-1) \o <<id>> \o SubSeq(ls, k, Len(ls))
  ELSE Append(ls, id)

\* ------------------------------------------------------------- timers
\* A pending timer: its kind names the callback, style and data are what the
\* callback's closure captured.
Timer(kind, style, data) == [kind |-> kind, style |-> style, data |-> data]
StartTimerOf == Timer("start", "-", FALSE)

Delay(kind) == IF kind \in {"load", "reattach"} THEN AttachDelay ELSE StartDelay

\* timer i may fire: no timer set before it has a delay that is not longer
Due(q, i) == \A j \in 1..(i-1) : Delay(q[j].kind) > Delay(q[i].kind)

RemoveAt(q, i) == SubSeq(q, 1, i-1) \o SubSeq(q, i+1, Len(q))

CountKind(q, kind) == Cardinality({i \in 1..Len(q) : q[i].kind = kind})

\* ------------------------------------------------------ animation driver
\* The animation state as a record: fid = boundaryAnimationFrameId,
\* pending = callbacks the scheduler holds, next = next id, writes = the
\* paint properties written by the last frame, raised = it threw.
AnimState == [fid |-> boundaryAnimationFrameId, pending |-> rafPending,
              next |-> nextRafId]

\* mutant of stopBoundaryAnimation: forgets to cancel the scheduled frame
stopBoundaryAnimation_NoCancel(a) ==
  IF a.fid # 0 THEN [a EXCEPT !.fid = 0] ELSE a

\* mutant of stopBoundaryAnimation: cancels the frame but keeps the stale id
stopBoundaryAnimation_KeepsId(a) ==
  IF a.fid # 0 THEN [a EXCEPT !.pending = a.pending \ {a.fid}] ELSE a

stopBoundaryAnimation(a) ==
  IF a.fid # 0
  THEN [a EXCEPT !.pending = a.pending \ {a.fid}, !.fid = 0]
  ELSE a

\* mutant of PaintFrom: no getLayer guard around the writes
RECURSIVE PaintFrom_NoGuard(_, _, _)
PaintFrom_NoGuard(i, ls, fail) ==
  IF i > Len(PaintCalls) THEN [writes |-> {}, raised |-> FALSE]
  ELSE IF PaintCalls[i] \in fail THEN [writes |-> {}, raised |-> TRUE]
  ELSE LET r == PaintFrom_NoGuard(i+1, ls, fail)
       IN [writes |-> {PaintCalls[i]} \cup r.writes, raised |-> r.raised]

\* The paint writes of one frame: each call is made only when its layer is
\* present; the first call in `fail` raises and ends the function.
RECURSIVE PaintFrom(_, _, _)
PaintFrom(i, ls, fail) ==
  IF i > Len(PaintCalls) THEN [writes |-> {}, raised |-> FALSE]
  ELSE IF ~getLayer(ls, PaintCalls[i][1]) THEN PaintFrom(i+1, ls, fail)
  ELSE IF PaintCalls[i] \in fail THEN [writes |-> {}, raised |-> TRUE]
  ELSE LET r == PaintFrom(i+1, ls, fail)
       IN [writes |-> {PaintCalls[i]} \cup r.writes, raised |-> r.raised]

\* mutant of animateBoundaryLayers: the map.loaded() check is missing
animateBoundaryLayers_NoLoadedCheck(a, ls, ld, fail) ==
  LET p == PaintFrom(1, ls, fail)
  IN IF p.raised
     THEN [anim |-> a, writes |-> p.writes, resched |-> FALSE, raised |-> TRUE]
     ELSE [anim |-> [fid |-> a.next, pending |-> a.pending \cup {a.next},
                     next |-> a.next + 1],
           writes |-> p.writes, resched |-> TRUE, raised |-> FALSE]

\* mutant of animateBoundaryLayers: requestAnimationFrame sits inside the
\* top-edge getLayer block, so a frame that finds the layer missing ends the loop
animateBoundaryLayers_RescheduleInGuard(a, ls, ld, fail) ==
  IF ~enableAnimations \/ ~ld
  THEN [anim |-> a, writes |-> {}, resched |-> FALSE, raised |-> FALSE]
  ELSE LET p == PaintFrom(1, ls, fail)
       IN IF p.raised \/ ~getLayer(ls, TopEdgeLayer)
          THEN [anim |-> a, writes |-> p.writes, resched |-> FALSE, raised |-> p.raised]
          ELSE [anim |-> [fid |-> a.next, pending |-> a.pending \cup {a.next},
                          next |-> a.next + 1],
                writes |-> p.writes, resched |-> TRUE, raised |-> FALSE]

\* result of animateBoundaryLayers: the animation state, what was written,
\* whether a frame was requested and whether the call threw
animateBoundaryLayers(a, ls, ld, fail) ==
  IF ~enableAnimations \/ ~ld
  THEN [anim |-> a, writes |-> {}, resched |-> FALSE, raised |-> FALSE]
  ELSE LET p == PaintFrom(1, ls, fail)
       IN IF p.raised
          THEN [anim |-> a, writes |-> p.writes, resched |-> FALSE, raised |-> TRUE]
          ELSE [anim |-> [fid |-> a.next, pending |-> a.pending \cup {a.next},
                          next |-> a.next + 1],
                writes |-> p.writes, resched |-> TRUE, raised |-> FALSE]

startBoundaryAnimation(a, ls, ld, fail) ==
  LET a1 == stopBoundaryAnimation(a)
  IN IF enableAnimations
     THEN animateBoundaryLayers(a1, ls, ld, fail)
     ELSE [anim |-> a1, writes |-> {}, resched |-> FALSE, raised |-> FALSE]

\* ---------------------------------------------------- boundary installers
\* A bounds argument: null, or an array of corner points.
BoundsInputs ==
  { [null |-> TRUE,  pts |-> <<>>],
    [null |-> FALSE, pts |-> << <<0, 0>> >>],
    [null |-> FALSE, pts |-> << <<0, 0>>, <<0, 0>> >>],
    [null |-> FALSE, pts |-> << <<0, 0>>, <<1, 1>> >>] }

\* A polygon argument: null, or an object whose coordinates may be missing.
PolygonInputs ==
  { [null |-> TRUE,  hasCoords |-> FALSE, coordinates |-> <<>>],
    [null |-> FALSE, hasCoords |-> FALSE, coordinates |-> <<>>],
    [null |-> FALSE, hasCoords |-> TRUE,  coordinates |-> <<>>],
    [null |-> FALSE, hasCoords |-> TRUE,  coordinates |-> << <<>> >>],
    [null |-> FALSE, hasCoords |-> TRUE,  coordinates |-> << << <<0, 0>> >> >>],
    [null |-> FALSE, hasCoords |-> TRUE,  coordinates |-> << << <<0, 0>>, <<1, 0>> >> >>],
    [null |-> FALSE, hasCoords |-> TRUE,
     coordinates |-> << << <<0, 0>>, <<1, 0>>, <<1, 1>>, <<0, 0>> >> >>],
    [null |-> FALSE, hasCoords |-> TRUE,
     coordinates |-> << << <<0, 0>>, <<1, 0>>, <<1, 1>> >> >>] }

Surface == [layers |-> layers, sources |-> sources]

HasBoundaryParts(m) ==
  \/ \E l \in BoundaryLayers : getLayer(m.layers, l)
  \/ m.sources \cap BoundarySources # {}

RECURSIVE RemoveAll(_, _, _)
RemoveAll(ls, ids, i) ==
  IF i > Len(ids) THEN ls
  ELSE RemoveAll(IF getLayer(ls, ids[i]) THEN removeLayer(ls, ids[i]) ELSE ls, ids, i+1)

\* mutant of RemoveExisting: the base line layer is missing from layersToRemove
RemoveExisting_KeepsBaseLine(m) ==
  [layers  |-> RemoveAll(m.layers, <<WallsLayer, TopEdgeLayer>>, 1),
   sources |-> m.sources \ BoundarySources]

\* the "remove existing boundary layers" block shared by the installers and
\* by removeBoundaryLayer
RemoveExisting(m) ==
  [layers  |-> RemoveAll(m.layers, layersToRemove, 1),
   sources |-> m.sources \ BoundarySources]

\* addSource x2 and addLayer x3; dup reports an add of a name still present
\* (the map refuses it)
InstallBoundary(m) ==
  LET beforeLayer == IF getLayer(m.layers, BuildingsLayer) THEN BuildingsLayer ELSE ""
      add(ls, id) == IF getLayer(ls, id) THEN ls ELSE addLayer(ls, id, beforeLayer)
      l1 == add(m.layers, WallsLayer)
      l2 == add(l1, TopEdgeLayer)
      l3 == add(l2, BaseLineLayer)
  IN [map |-> [layers |-> l3, sources |-> m.sources \cup BoundarySources],
      dup |-> \/ m.sources \cap BoundarySources # {}
              \/ \E l \in BoundaryLayers : getLayer(m.layers, l)]

NoInstall(m, didRemove) ==
  [map |-> m, timer |-> FALSE, removed |-> didRemove, dup |-> FALSE,
   valid |-> FALSE, raised |-> FALSE]

addBoundaryLayer(m, ready, bounds) ==
  IF bounds.null \/ Len(bounds.pts) # 2 THEN NoInstall(m, FALSE)
  ELSE IF ~ready THEN [NoInstall(m, FALSE) EXCEPT !.raised = TRUE, !.valid = TRUE]
  ELSE LET m1 == RemoveExisting(m)
           r  == InstallBoundary(m1)
       IN [map |-> r.map, timer |-> TRUE, removed |-> HasBoundaryParts(m),
           dup |-> r.dup, valid |-> TRUE, raised |-> FALSE]

addBoundaryLayerFromPolygon(m, ready, poly) ==
  IF poly.null \/ ~poly.hasCoords \/ Len(poly.coordinates) = 0
  THEN NoInstall(m, FALSE)
  ELSE IF ~ready THEN [NoInstall(m, FALSE) EXCEPT !.raised = TRUE, !.valid = TRUE]
  ELSE LET m1 == RemoveExisting(m)
           coords == poly.coordinates[1]
       IN IF Len(coords) = 0 THEN NoInstall(m1, HasBoundaryParts(m))
          ELSE LET r == InstallBoundary(m1)
               IN [map |-> r.map, timer |-> TRUE, removed |-> HasBoundaryParts(m),
                   dup |-> r.dup, valid |-> TRUE, raised |-> FALSE]

removeBoundaryLayer(m, a) ==
  LET a1 == stopBoundaryAnimation(a)
  IN [map |-> RemoveExisting(m), anim |-> a1,
      removedPending |-> HasBoundaryParts(m) /\ a1.pending # {}]

\* ------------------------------------------------------------ observation
\* the direct calls whose succession the properties speak about
TrackedOps == {"start", "stop", "add", "addPolygon"}

\* the argument recorded for operations that take none worth recording
NoArg == [null |-> TRUE]

Obs(op) ==
  [op |-> op, prev |-> IF obs.op \in TrackedOps THEN obs.op ELSE "-", writes |-> {}, resched |-> FALSE, raised |-> FALSE,
   failed |-> {}, removedPending |-> FALSE, dup |-> FALSE, valid |-> FALSE, ld |-> loaded,
   arg |-> NoArg]

LoopEndOf(r) ==
  IF r.resched THEN "running" ELSE IF r.raised THEN "raised" ELSE "notLoaded"

SetAnim(a, how) ==
  /\ boundaryAnimationFrameId' = a.fid
  /\ rafPending' = a.pending
  /\ nextRafId' = a.next
  /\ loopEnd' = how

NoPolygon == [null |-> TRUE, hasCoords |-> FALSE, coordinates |-> <<>>]

\* ---------------------------------------------------------------- actions
\* Init: the module state of mapLayerUtils on a loaded map with no
\* component driving it (the exported functions are called directly).
Init ==
  /\ layers = <<>>
  /\ sources = {}
  /\ styleReady = TRUE
  /\ loaded = TRUE
  /\ boundaryAnimationFrameId = 0
  /\ rafPending = {}
  /\ nextRafId = 1
  /\ loopEnd = "none"
  /\ timers = <<>>
  /\ built = NoCall
  /\ calls3D = 0
  /\ switcher = NoSwitcher
  /\ hidden = FALSE
  /\ obs = [op |-> "init", prev |-> "-", writes |-> {}, resched |-> FALSE,
            raised |-> FALSE, failed |-> {}, removedPending |-> FALSE,
            dup |-> FALSE, valid |-> FALSE, ld |-> TRUE, arg |-> NoArg]
  /\ composite = TRUE
  /\ mapStyle = "STREETS"
  /\ currentStyle = "STREETS"
  /\ mapLoaded = TRUE
  /\ styleLoaded = TRUE
  /\ dataLoaded = FALSE
  /\ polygon = NoPolygon
  /\ isInitialMount = FALSE
  /\ dataDirty = FALSE
  /\ styleDirty = FALSE
  /\ loadPending = FALSE
  /\ styleLoadHandlers = <<>>
  /\ markerConts = 0
  /\ selections = 0
  /\ activeChange = FALSE
  /\ mapHandlers = {}
  /\ eventHandlersRef = 0
  /\ popups = {}
  /\ currentPopupRef = 0
  /\ removed = FALSE

\* a caller invokes the exported startBoundaryAnimation(map)
StartCall(fail) ==
  /\ nextRafId <= MaxFrames
  /\ LET r == startBoundaryAnimation(AnimState, layers, loaded, fail)
     IN /\ SetAnim(r.anim, LoopEndOf(r))
        /\ obs' = [Obs("start") EXCEPT !.writes = r.writes, !.resched = r.resched,
                                       !.raised = r.raised]
  /\ hidden' = FALSE
  /\ UNCHANGED <<surfaceVars, timers, sectionVars, helperVars>>

StartBoundaryAnimation == StartCall({})

StopBoundaryAnimation ==
  /\ SetAnim(stopBoundaryAnimation(AnimState), "stopped")
  /\ obs' = Obs("stop")
  /\ UNCHANGED <<surfaceVars, timers, hidden, sectionVars, helperVars>>

\* the browser runs a requested frame callback
Frame(fail) ==
  /\ nextRafId <= MaxFrames
  /\ \E id \in rafPending :
       LET r == animateBoundaryLayers([AnimState EXCEPT !.pending = rafPending \ {id}],
                                      layers, loaded, fail)
       IN /\ SetAnim(r.anim, LoopEndOf(r))
          /\ obs' = [Obs("frame") EXCEPT !.writes = r.writes, !.resched = r.resched,
                                         !.raised = r.raised, !.failed = fail]
  /\ UNCHANGED <<surfaceVars, timers, hidden, sectionVars, helperVars>>

FrameCallback == Frame({})

\* the 100 ms timer set by an installer fires
StartTimer(fail) ==
  /\ nextRafId <= MaxFrames
  /\ \E i \in 1..Len(timers) :
       /\ timers[i].kind = "start" /\ Due(timers, i)
       /\ timers' = RemoveAt(timers, i)
  /\ LET r == startBoundaryAnimation(AnimState, layers, loaded, fail)
     IN /\ SetAnim(r.anim, LoopEndOf(r))
        /\ obs' = [Obs("startTimer") EXCEPT !.writes = r.writes, !.resched = r.resched,
                                            !.raised = r.raised]
  /\ UNCHANGED <<surfaceVars, hidden, sectionVars, helperVars>>

StartTimerFires == StartTimer({})

Installed(op, r, arg) ==
  /\ layers' = r.map.layers
  /\ sources' = r.map.sources
  /\ timers' = IF r.timer THEN Append(timers, StartTimerOf) ELSE timers
  /\ hidden' = IF r.timer THEN FALSE ELSE hidden
  /\ obs' = [Obs(op) EXCEPT !.removedPending = r.removed /\ rafPending # {},
                            !.dup = r.dup, !.valid = r.valid, !.raised = r.raised,
                            !.arg = arg]

AddBoundaryLayer ==
  /\ Len(timers) < MaxTimers
  /\ \E b \in BoundsInputs : Installed("add", addBoundaryLayer(Surface, styleReady, b), b)
  /\ UNCHANGED <<styleReady, loaded, animVars, sectionVars, helperVars>>

AddBoundaryLayerFromPolygon ==
  /\ Len(timers) < MaxTimers
  /\ \E p \in PolygonInputs :
       Installed("addPolygon", addBoundaryLayerFromPolygon(Surface, styleReady, p), p)
  /\ UNCHANGED <<styleReady, loaded, animVars, sectionVars, helperVars>>

RemoveBoundaryLayer ==
  /\ LET r == removeBoundaryLayer(Surface, AnimState)
     IN /\ layers' = r.map.layers
        /\ sources' = r.map.sources
        /\ SetAnim(r.anim, "stopped")
        /\ obs' = [Obs("remove") EXCEPT !.removedPending = r.removedPending]
  /\ hidden' = TRUE
  /\ UNCHANGED <<styleReady, loaded, timers, sectionVars, helperVars>>

\* tiles start or finish loading: map.loaded() changes its answer
MapLoadedChanges ==
  /\ styleReady
  /\ loaded' = ~loaded
  /\ obs' = [Obs("loaded") EXCEPT !.ld = ~loaded]
  /\ UNCHANGED <<layers, sources, styleReady, animVars, timers, hidden,
                 sectionVars, helperVars>>

Next ==
  \/ StartBoundaryAnimation
  \/ StopBoundaryAnimation
  \/ FrameCallback
  \/ StartTimerFires
  \/ AddBoundaryLayer
  \/ AddBoundaryLayerFromPolygon
  \/ RemoveBoundaryLayer
  \/ MapLoadedChanges

Spec == Init /\ [][Next]_vars

\* ------------------------------------------------- the MapSection component
StyleKeys == {"SATELLITE", "SATELLITE_STREETS", "STREETS", "OUTDOORS", "DARK", "LIGHT"}
InfoKeys  == {"SATELLITE_STREETS", "STREETS", "OUTDOORS", "DARK", "LIGHT"}
Supports3DFlag == [k \in InfoKeys |-> k \in {"STREETS", "DARK"}]
InitialStyle == "STREETS"
SectionStyles == {"STREETS", "LIGHT"}    \* the styles selected in a run
TrianglePolygon ==
  [null |-> FALSE, hasCoords |-> TRUE,
   coordinates |-> << << <<0, 0>>, <<1, 0>>, <<1, 1>>, <<0, 0>> >> >>]
DataBounds == [null |-> FALSE, pts |-> << <<0, 0>>, <<1, 1>> >>]
MarkerLayers == <<"clusters", "cluster-count", "unclustered-point">>
MarkerSource == "observations"

supports3DBuildings(styleUrl) ==
  IF styleUrl \in StyleKeys /\ styleUrl \in InfoKeys THEN Supports3DFlag[styleUrl] ELSE FALSE

\* vector styles carry the 'composite' source the buildings layer reads
HasComposite(styleUrl) == styleUrl # "SATELLITE"

add3DBuildingsLayer(m, comp) ==
  IF getLayer(m.layers, BuildingsLayer) THEN [map |-> m, retry |-> FALSE]
  ELSE IF ~comp THEN [map |-> m, retry |-> TRUE]
  ELSE [map |-> [m EXCEPT !.layers = addLayer(m.layers, BuildingsLayer, "")],
        retry |-> FALSE]

\* addObservationMarkers up to its await: the old source and layers go
MarkersSyncPart(m) ==
  IF MarkerSource \in m.sources
  THEN [layers |-> RemoveAll(m.layers, MarkerLayers, 1),
        sources |-> m.sources \ {MarkerSource}]
  ELSE m

\* addObservationMarkers after the await: addSource raises when the style is
\* not ready or the source is present, else the three layers go on top
MarkersAsyncPart(m, ready) ==
  IF ~ready \/ MarkerSource \in m.sources THEN m
  ELSE [layers |-> m.layers \o MarkerLayers, sources |-> m.sources \cup {MarkerSource}]

\* addObservationMarkers up to its await, the handlers and the popup: the
\* bundle the ref records is taken off the map, the ref is emptied, and the
\* popup the popup ref names is closed
MarkersSyncRefs ==
  /\ mapHandlers' = mapHandlers \ {eventHandlersRef}
  /\ eventHandlersRef' = 0
  /\ popups' = popups \ {currentPopupRef}
  /\ currentPopupRef' = 0
  /\ UNCHANGED removed

\* the identity of a newly created handler bundle, and of a new popup
FreshHandler ==
  CHOOSE n \in 1..(Cardinality(mapHandlers) + 1) :
    n \notin mapHandlers /\ \A k \in 1..(n-1) : k \in mapHandlers

FreshPopup ==
  CHOOSE n \in 1..(Cardinality(popups) + 1) :
    n \notin popups /\ \A k \in 1..(n-1) : k \in popups

\* addObservationMarkers after the layers are added: the six handlers are
\* written into eventHandlersRef.current and registered with map.on
MarkersAsyncRefs(ok) ==
  /\ mapHandlers' = IF ok THEN mapHandlers \cup {FreshHandler} ELSE mapHandlers
  /\ eventHandlersRef' = IF ok THEN FreshHandler ELSE eventHandlersRef
  /\ UNCHANGED <<popups, currentPopupRef, removed>>

Closure == [style |-> currentStyle, data |-> dataLoaded]

EffectsFlushed == ~dataDirty /\ ~styleDirty

\* the component as mounted: the map is created and loading, every effect is due
InitSection ==
  /\ layers = <<>>
  /\ sources = {}
  /\ styleReady = FALSE
  /\ loaded = FALSE
  /\ boundaryAnimationFrameId = 0
  /\ rafPending = {}
  /\ nextRafId = 1
  /\ loopEnd = "none"
  /\ timers = <<>>
  /\ built = NoCall
  /\ calls3D = 0
  /\ switcher = NoSwitcher
  /\ hidden = FALSE
  /\ obs = [op |-> "init", prev |-> "-", writes |-> {}, resched |-> FALSE,
            raised |-> FALSE, failed |-> {}, removedPending |-> FALSE,
            dup |-> FALSE, valid |-> FALSE, ld |-> FALSE, arg |-> NoArg]
  /\ composite = FALSE
  /\ mapStyle = InitialStyle
  /\ currentStyle = InitialStyle
  /\ mapLoaded = FALSE
  /\ styleLoaded = FALSE
  /\ dataLoaded = FALSE
  /\ polygon \in {NoPolygon, TrianglePolygon}
  /\ isInitialMount = TRUE
  /\ dataDirty = TRUE
  /\ styleDirty = TRUE
  /\ loadPending = TRUE
  /\ styleLoadHandlers = <<>>
  /\ markerConts = 0
  /\ selections = 0
  /\ activeChange = FALSE
  /\ mapHandlers = {}
  /\ eventHandlersRef = 0
  /\ popups = {}
  /\ currentPopupRef = 0
  /\ removed = FALSE

SetSurface(m) ==
  /\ layers' = m.layers
  /\ sources' = m.sources

\* mapInstance.once('load', ...)
MapLoad ==
  /\ EffectsFlushed /\ loadPending /\ ~removed
  /\ Len(timers) < MaxTimers
  /\ loadPending' = FALSE
  /\ styleReady' = TRUE
  /\ loaded' = TRUE
  /\ composite' = HasComposite(mapStyle)
  /\ mapLoaded' = TRUE
  /\ dataDirty' = TRUE
  /\ styleDirty' = TRUE
  /\ timers' = Append(timers, Timer("load", "-", FALSE))
  /\ obs' = [Obs("mapLoad") EXCEPT !.ld = TRUE]
  /\ UNCHANGED <<layers, sources, animVars, hidden, mapStyle, currentStyle,
                 styleLoaded, dataLoaded, polygon, isInitialMount,
                 styleLoadHandlers, markerConts, selections, activeChange>>
  /\ UNCHANGED <<helperVars, uiVars>>

\* add3DBuildingsLayer as a timer callback calls it for a style
Buildings3D(styleUrl) ==
  IF supports3DBuildings(styleUrl) THEN add3DBuildingsLayer(Surface, composite)
  ELSE [map |-> Surface, retry |-> FALSE]

RetryTimerOf(b3) == IF b3.retry THEN <<Timer("retry", "-", FALSE)>> ELSE <<>>

\* the 500 ms timer of the load handler
LoadTimerFires ==
  /\ EffectsFlushed
  /\ \E i \in 1..Len(timers) :
       /\ timers[i].kind = "load" /\ Due(timers, i)
       /\ LET b3 == Buildings3D(InitialStyle)
          IN /\ SetSurface(b3.map)
             /\ timers' = RemoveAt(timers, i) \o RetryTimerOf(b3)
  /\ styleLoaded' = IF removed THEN styleLoaded ELSE TRUE
  /\ dataDirty' = (~removed /\ ~styleLoaded)
  /\ obs' = Obs("loadTimer")
  /\ UNCHANGED <<styleReady, loaded, animVars, hidden, composite, mapStyle,
                 currentStyle, mapLoaded, dataLoaded, polygon, isInitialMount,
                 styleDirty, loadPending, styleLoadHandlers, markerConts,
                 selections, activeChange>>
  /\ UNCHANGED <<helperVars, uiVars>>

\* useMapData delivers observations, center and bounds in one render
DataArrives ==
  /\ EffectsFlushed /\ ~dataLoaded /\ ~removed
  /\ dataLoaded' = TRUE
  /\ dataDirty' = TRUE
  /\ styleDirty' = TRUE
  /\ obs' = Obs("data")
  /\ UNCHANGED <<surfaceVars, animVars, timers, hidden, composite, mapStyle,
                 currentStyle, mapLoaded, styleLoaded, polygon, isInitialMount,
                 loadPending, styleLoadHandlers, markerConts, selections,
                 activeChange>>
  /\ UNCHANGED <<helperVars, uiVars>>

\* the "update map when data is loaded" effect
DataEffect ==
  /\ dataDirty
  /\ dataDirty' = FALSE
  /\ IF ~mapLoaded \/ ~styleLoaded \/ ~dataLoaded
     THEN /\ obs' = Obs("dataEffectSkip")
          /\ UNCHANGED <<layers, sources, markerConts, timers, uiVars>>
     ELSE /\ markerConts < MaxPending /\ Len(timers) < MaxTimers
          /\ SetSurface(MarkersSyncPart(Surface))
          /\ MarkersSyncRefs
          /\ markerConts' = markerConts + 1
          /\ timers' = Append(timers, Timer("boundary", "-", FALSE))
          /\ obs' = Obs("dataEffect")
  /\ UNCHANGED <<styleReady, loaded, animVars, hidden, composite, mapStyle,
                 currentStyle, mapLoaded, styleLoaded, dataLoaded, polygon,
                 isInitialMount, styleDirty, loadPending, styleLoadHandlers,
                 selections, activeChange>>
  /\ UNCHANGED helperVars

\* mutant of StyleEffectBody: the effect forgets stopBoundaryAnimation
StyleEffectBody_NoStop ==
  /\ styleLoaded' = FALSE
  /\ dataDirty' = styleLoaded
  /\ UNCHANGED animVars
  /\ layers' = <<>>
  /\ sources' = {}
  /\ styleReady' = FALSE
  /\ loaded' = FALSE
  /\ composite' = FALSE
  /\ mapStyle' = currentStyle
  /\ styleLoadHandlers' = Append(styleLoadHandlers, Closure)
  /\ activeChange' =
       (activeChange \/ ((\A l \in BoundaryLayers : getLayer(layers, l)) /\ rafPending # {}))
  /\ obs' = Obs("styleEffect")

\* setStyleLoaded(false); stopBoundaryAnimation(); map.setStyle(currentStyle);
\* map.once('style.load', ...): the style's custom layers and sources go
StyleEffectBody ==
  /\ styleLoaded' = FALSE
  /\ dataDirty' = styleLoaded
  /\ SetAnim(stopBoundaryAnimation(AnimState), "stopped")
  /\ layers' = <<>>
  /\ sources' = {}
  /\ styleReady' = FALSE
  /\ loaded' = FALSE
  /\ composite' = FALSE
  /\ mapStyle' = currentStyle
  /\ styleLoadHandlers' = Append(styleLoadHandlers, Closure)
  /\ activeChange' =
       (activeChange \/ ((\A l \in BoundaryLayers : getLayer(layers, l)) /\ rafPending # {}))
  /\ obs' = Obs("styleEffect")

\* the "handle style changes" effect
StyleEffect ==
  /\ styleDirty /\ ~dataDirty
  /\ styleDirty' = FALSE
  /\ IF isInitialMount
     THEN /\ isInitialMount' = FALSE
          /\ obs' = Obs("styleEffectSkip")
          /\ UNCHANGED <<surfaceVars, animVars, composite, mapStyle, styleLoaded,
                         dataDirty, styleLoadHandlers, activeChange>>
     ELSE IF ~mapLoaded
     THEN /\ obs' = Obs("styleEffectSkip")
          /\ UNCHANGED <<surfaceVars, animVars, composite, mapStyle, styleLoaded,
                         dataDirty, styleLoadHandlers, isInitialMount, activeChange>>
     ELSE /\ Len(styleLoadHandlers) < MaxPending
          /\ StyleEffectBody
          /\ UNCHANGED isInitialMount
  /\ UNCHANGED <<timers, hidden, currentStyle, mapLoaded, dataLoaded, polygon,
                 loadPending, markerConts, selections>>
  /\ UNCHANGED <<helperVars, uiVars>>

\* the user picks a style in the StyleSwitcherControl: setCurrentStyle(url)
SelectStyle ==
  /\ EffectsFlushed /\ mapLoaded /\ ~removed /\ selections < MaxSelections
  /\ \E k \in SectionStyles :
       /\ currentStyle' = k
       /\ styleDirty' = (k # currentStyle)
       /\ selections' = IF k # currentStyle THEN selections + 1 ELSE selections
  /\ obs' = Obs("select")
  /\ UNCHANGED <<surfaceVars, animVars, timers, hidden, composite, mapStyle,
                 mapLoaded, styleLoaded, dataLoaded, polygon, isInitialMount,
                 dataDirty, loadPending, styleLoadHandlers, markerConts,
                 activeChange>>
  /\ UNCHANGED <<helperVars, uiVars>>

ReattachTimersOf(hs) == [i \in 1..Len(hs) |-> Timer("reattach", hs[i].style, hs[i].data)]

\* the map fires 'style.load' for the style last set: every once-handler runs
\* (jumpTo, then setTimeout(..., 500))
StyleLoadEvent ==
  /\ EffectsFlushed /\ ~styleReady /\ ~loadPending /\ ~removed
  /\ Len(timers) + Len(styleLoadHandlers) <= MaxTimers
  /\ styleReady' = TRUE
  /\ composite' = HasComposite(mapStyle)
  /\ timers' = timers \o ReattachTimersOf(styleLoadHandlers)
  /\ styleLoadHandlers' = <<>>
  /\ obs' = Obs("styleLoad")
  /\ UNCHANGED <<layers, sources, loaded, animVars, hidden, mapStyle,
                 currentStyle, mapLoaded, styleLoaded, dataLoaded, polygon,
                 isInitialMount, dataDirty, styleDirty, loadPending,
                 markerConts, selections, activeChange>>
  /\ UNCHANGED <<helperVars, uiVars>>

\* the boundary call shared by the data effect's timer and the re-attach timer
BoundaryCall(m, hasBounds) ==
  IF ~polygon.null THEN addBoundaryLayerFromPolygon(m, styleReady, polygon)
  ELSE IF hasBounds THEN addBoundaryLayer(m, styleReady, DataBounds)
  ELSE NoInstall(m, FALSE)

StartTimerIf(bd) == IF bd.timer THEN <<StartTimerOf>> ELSE <<>>

\* the 500 ms timer set by a style.load handler
ReattachTimerFires ==
  /\ EffectsFlushed /\ markerConts < MaxPending
  /\ \E i \in 1..Len(timers) :
       /\ timers[i].kind = "reattach" /\ Due(timers, i)
       /\ LET c  == timers[i]
              b3 == Buildings3D(c.style)
              bd == BoundaryCall(b3.map, c.data)
              markers == ~bd.raised /\ c.data
              m3 == IF markers THEN MarkersSyncPart(bd.map) ELSE bd.map
          IN /\ SetSurface(m3)
             /\ timers' = RemoveAt(timers, i) \o RetryTimerOf(b3) \o StartTimerIf(bd)
             /\ IF markers THEN MarkersSyncRefs ELSE UNCHANGED uiVars
             /\ markerConts' = IF markers THEN markerConts + 1 ELSE markerConts
             /\ styleLoaded' = IF bd.raised \/ removed THEN styleLoaded ELSE TRUE
             /\ dataDirty' = (~bd.raised /\ ~removed /\ ~styleLoaded)
             /\ obs' = [Obs("reattach") EXCEPT
                          !.removedPending = bd.removed /\ rafPending # {},
                          !.dup = bd.dup, !.valid = bd.valid, !.raised = bd.raised]
  /\ Len(timers') <= MaxTimers
  /\ UNCHANGED <<styleReady, loaded, animVars, hidden, composite, mapStyle,
                 currentStyle, mapLoaded, dataLoaded, polygon, isInitialMount,
                 styleDirty, loadPending, styleLoadHandlers, selections,
                 activeChange>>
  /\ UNCHANGED helperVars

\* the 100 ms timer set by the data effect
BoundaryTimerFires ==
  /\ EffectsFlushed
  /\ \E i \in 1..Len(timers) :
       /\ timers[i].kind = "boundary" /\ Due(timers, i)
       /\ LET bd == BoundaryCall(Surface, TRUE)
          IN /\ SetSurface(bd.map)
             /\ timers' = RemoveAt(timers, i) \o StartTimerIf(bd)
             /\ obs' = [Obs("boundaryTimer") EXCEPT
                          !.removedPending = bd.removed /\ rafPending # {},
                          !.dup = bd.dup, !.valid = bd.valid, !.raised = bd.raised]
  /\ UNCHANGED <<styleReady, loaded, animVars, hidden, composite, mapStyle,
                 currentStyle, mapLoaded, styleLoaded, dataLoaded, polygon,
                 isInitialMount, dataDirty, styleDirty, loadPending,
                 styleLoadHandlers, markerConts, selections, activeChange>>
  /\ UNCHANGED <<helperVars, uiVars>>

\* loadCategoryIcons resolves and addObservationMarkers continues
MarkersContinue ==
  /\ EffectsFlushed /\ markerConts > 0
  /\ markerConts' = markerConts - 1
  /\ SetSurface(MarkersAsyncPart(Surface, styleReady))
  /\ MarkersAsyncRefs(styleReady /\ MarkerSource \notin sources)
  /\ obs' = [Obs("markers") EXCEPT !.raised = (~styleReady \/ MarkerSource \in sources),
                                    !.dup = (MarkerSource \in sources)]
  /\ UNCHANGED <<styleReady, loaded, animVars, timers, hidden, composite,
                 mapStyle, currentStyle, mapLoaded, styleLoaded, dataLoaded,
                 polygon, isInitialMount, dataDirty, styleDirty, loadPending,
                 styleLoadHandlers, selections, activeChange>>
  /\ UNCHANGED helperVars

\* mutant of RetryTimerFires: the retry calls add3DBuildingsLayer again without
\* looking for the composite source
RetryTimerFires_AlwaysRecalls ==
  /\ EffectsFlushed
  /\ \E i \in 1..Len(timers) :
       /\ timers[i].kind = "retry" /\ Due(timers, i)
       /\ LET r == add3DBuildingsLayer(Surface, composite)
          IN /\ SetSurface(r.map)
             /\ timers' = RemoveAt(timers, i) \o RetryTimerOf(r)
  /\ obs' = Obs("retry")
  /\ UNCHANGED <<styleReady, loaded, animVars, hidden, composite, mapStyle,
                 currentStyle, mapLoaded, styleLoaded, dataLoaded, polygon,
                 isInitialMount, dataDirty, styleDirty, loadPending,
                 styleLoadHandlers, markerConts, selections, activeChange>>
  /\ UNCHANGED <<helperVars, uiVars>>

\* the 100 ms retry of add3DBuildingsLayer: it calls again only when the
\* composite source has appeared
RetryTimerFires ==
  /\ EffectsFlushed
  /\ \E i \in 1..Len(timers) :
       /\ timers[i].kind = "retry" /\ Due(timers, i)
       /\ LET r == IF composite THEN add3DBuildingsLayer(Surface, composite)
                   ELSE [map |-> Surface, retry |-> FALSE]
          IN /\ SetSurface(r.map)
             /\ timers' = RemoveAt(timers, i) \o RetryTimerOf(r)
  /\ obs' = Obs("retry")
  /\ UNCHANGED <<styleReady, loaded, animVars, hidden, composite, mapStyle,
                 currentStyle, mapLoaded, styleLoaded, dataLoaded, polygon,
                 isInitialMount, dataDirty, styleDirty, loadPending,
                 styleLoadHandlers, markerConts, selections, activeChange>>
  /\ UNCHANGED <<helperVars, uiVars>>

SectionStartTimerFires == EffectsFlushed /\ StartTimerFires
SectionFrameCallback == EffectsFlushed /\ FrameCallback
SectionMapLoadedChanges == EffectsFlushed /\ MapLoadedChanges

NextSection ==
  \/ DataEffect
  \/ StyleEffect
  \/ MapLoad
  \/ LoadTimerFires
  \/ DataArrives
  \/ SelectStyle
  \/ StyleLoadEvent
  \/ ReattachTimerFires
  \/ BoundaryTimerFires
  \/ MarkersContinue
  \/ RetryTimerFires
  \/ SectionStartTimerFires
  \/ SectionFrameCallback
  \/ SectionMapLoadedChanges

SpecSection == InitSection /\ [][NextSection]_vars

\* ------------------------------------------ marker clicks and the cleanup
\* the user clicks an unclustered point: every registered markerClickHandler
\* closes the popup the ref names, starts flyTo and sets its 100 ms timer
MarkerClick ==
  /\ EffectsFlushed /\ ~removed /\ styleReady
  /\ getLayer(layers, "unclustered-point")
  /\ mapHandlers # {}
  /\ Len(timers) + Cardinality(mapHandlers) <= MaxTimers
  /\ popups' = popups \ {currentPopupRef}
  /\ currentPopupRef' = 0
  /\ timers' = timers \o [i \in 1..Cardinality(mapHandlers) |-> Timer("popup", "-", FALSE)]
  /\ obs' = Obs("click")
  /\ UNCHANGED <<surfaceVars, animVars, hidden, composite, mapStyle, currentStyle,
                 mapLoaded, styleLoaded, dataLoaded, polygon, isInitialMount,
                 dataDirty, styleDirty, loadPending, styleLoadHandlers,
                 markerConts, selections, activeChange, mapHandlers,
                 eventHandlersRef, removed, helperVars>>

\* the 100 ms timer of a markerClickHandler: a new popup is added to the map
\* and becomes the one the ref names
PopupTimerFires ==
  /\ EffectsFlushed /\ Cardinality(popups) < MaxPopups
  /\ \E i \in 1..Len(timers) :
       /\ timers[i].kind = "popup" /\ Due(timers, i)
       /\ timers' = RemoveAt(timers, i)
  /\ popups' = popups \cup {FreshPopup}
  /\ currentPopupRef' = FreshPopup
  /\ obs' = Obs("popupTimer")
  /\ UNCHANGED <<surfaceVars, animVars, hidden, composite, mapStyle, currentStyle,
                 mapLoaded, styleLoaded, dataLoaded, polygon, isInitialMount,
                 dataDirty, styleDirty, loadPending, styleLoadHandlers,
                 markerConts, selections, activeChange, mapHandlers,
                 eventHandlersRef, removed, helperVars>>

\* the user closes a popup with its close button: its 'close' listener
\* clears the ref only when the ref names that popup
PopupClosed ==
  /\ EffectsFlushed /\ ~removed
  /\ \E p \in popups :
       /\ popups' = popups \ {p}
       /\ currentPopupRef' = IF currentPopupRef = p THEN 0 ELSE currentPopupRef
  /\ obs' = Obs("popupClosed")
  /\ UNCHANGED <<surfaceVars, animVars, timers, hidden, composite, mapStyle,
                 currentStyle, mapLoaded, styleLoaded, dataLoaded, polygon,
                 isInitialMount, dataDirty, styleDirty, loadPending,
                 styleLoadHandlers, markerConts, selections, activeChange,
                 mapHandlers, eventHandlersRef, removed, helperVars>>

\* the component unmounts: the cleanup of the initialisation effect runs.
\* The removed map has no style, no layers and no listeners; no timer is
\* cleared.
Unmount ==
  /\ EffectsFlushed /\ ~removed
  /\ SetAnim(stopBoundaryAnimation(AnimState), "stopped")
  /\ popups' = popups \ {currentPopupRef}
  /\ currentPopupRef' = 0
  /\ mapHandlers' = mapHandlers \ {eventHandlersRef}
  /\ layers' = <<>>
  /\ sources' = {}
  /\ styleReady' = FALSE
  /\ loaded' = FALSE
  /\ composite' = FALSE
  /\ styleLoadHandlers' = <<>>
  /\ removed' = TRUE
  /\ obs' = [Obs("unmount") EXCEPT !.ld = FALSE]
  /\ UNCHANGED <<timers, hidden, mapStyle, currentStyle, mapLoaded, styleLoaded,
                 dataLoaded, polygon, isInitialMount, dataDirty, styleDirty,
                 loadPending, markerConts, selections, activeChange,
                 eventHandlersRef, helperVars>>

\* the component with a user who clicks markers, closes popups and leaves
\* the page, and never picks another style
NextInteract ==
  \/ DataEffect
  \/ StyleEffect
  \/ MapLoad
  \/ LoadTimerFires
  \/ DataArrives
  \/ StyleLoadEvent
  \/ ReattachTimerFires
  \/ BoundaryTimerFires
  \/ MarkersContinue
  \/ RetryTimerFires
  \/ SectionStartTimerFires
  \/ SectionFrameCallback
  \/ SectionMapLoadedChanges
  \/ MarkerClick
  \/ PopupTimerFires
  \/ PopupClosed
  \/ Unmount

SpecInteract == InitSection /\ [][NextInteract]_vars

\* ------------------------------------ add3DBuildingsLayer called directly
\* a caller invokes the exported add3DBuildingsLayer(map, currentStyle) for a
\* style without built-in 3D buildings
Add3DBuildingsLayer ==
  /\ calls3D < MaxCalls /\ Len(timers) < MaxTimers
  /\ LET r == add3DBuildingsLayer(Surface, composite)
     IN /\ SetSurface(r.map)
        /\ timers' = timers \o RetryTimerOf(r)
  /\ calls3D' = calls3D + 1
  /\ \E k \in StyleKeys : obs' = [Obs("add3D") EXCEPT !.arg = [null |-> FALSE, style |-> k]]
  /\ UNCHANGED <<styleReady, loaded, animVars, hidden, sectionVars, built, switcher>>

\* the style's composite source becomes available, or goes with the style
CompositeChanges ==
  /\ composite' = ~composite
  /\ layers' = IF composite THEN removeLayer(layers, BuildingsLayer) ELSE layers
  /\ obs' = Obs("composite")
  /\ UNCHANGED <<sources, styleReady, loaded, animVars, timers, hidden, mapStyle,
                 currentStyle, mapLoaded, styleLoaded, dataLoaded, polygon,
                 isInitialMount, dataDirty, styleDirty, loadPending,
                 styleLoadHandlers, markerConts, selections, activeChange,
                 helperVars, uiVars>>

NextRetry ==
  \/ Add3DBuildingsLayer
  \/ RetryTimerFires
  \/ CompositeChanges

\* a timer that is due does fire
SpecRetry == Init /\ [][NextRetry]_vars /\ WF_vars(RetryTimerFires)

\* ------------------------------------------------- StyleSwitcherControl
MAP_STYLES ==
  [k \in StyleKeys |->
     CASE k = "SATELLITE"         -> "mapbox://styles/mapbox/satellite-v9"
       [] k = "SATELLITE_STREETS" -> "mapbox://styles/mapbox/satellite-streets-v12"
       [] k = "STREETS"           -> "mapbox://styles/mapbox/streets-v12"
       [] k = "OUTDOORS"          -> "mapbox://styles/mapbox/outdoors-v12"
       [] k = "DARK"              -> "mapbox://styles/mapbox/dark-v11"
       [] k = "LIGHT"             -> "mapbox://styles/mapbox/light-v11"]

\* the initialStyle arguments: every style URL, and one that is no known style
InitialStyles == {MAP_STYLES[k] : k \in StyleKeys} \cup {"mapbox://styles/other"}

\* new StyleSwitcherControl(MAP_STYLES, MAP_STYLE_INFO, onStyleChange, initialStyle),
\* onStyleChange being a callback (TRUE) or missing (FALSE):
\* display and active describe the dropdown and icon the button once onAdd
\* has built them; calls lists the onStyleChange invocations of the last
\* operation and ownerStyle is the style URL the owner holds (its initialStyle,
\* then whatever onStyleChange last handed it)
StyleSwitcherControl(onStyleChange, initialStyle) ==
  [made |-> TRUE, onStyleChange |-> onStyleChange,
   currentStyleKey |->
     IF \E k \in StyleKeys : MAP_STYLES[k] = initialStyle
     THEN CHOOSE k \in StyleKeys : MAP_STYLES[k] = initialStyle
     ELSE "STREETS",
   isOpen |-> FALSE, added |-> FALSE, raised |-> FALSE,
   display |-> "none", active |-> {}, icon |-> "-", ownerStyle |-> initialStyle,
   op |-> "new", arg |-> "-", calls |-> <<>>]

\* the options onAdd creates: one per style that has metadata
Options == {k \in StyleKeys : k \in InfoKeys}

onAdd(c) ==
  IF c.currentStyleKey \notin InfoKeys
  THEN [c EXCEPT !.raised = TRUE, !.op = "onAdd", !.calls = <<>>]
  ELSE [c EXCEPT !.added = TRUE, !.display = "none", !.icon = c.currentStyleKey,
                 !.active = {k \in Options : k = c.currentStyleKey},
                 !.op = "onAdd", !.calls = <<>>]

openDropdown(c) == [c EXCEPT !.display = "block", !.isOpen = TRUE]

closeDropdown(c) == [c EXCEPT !.display = "none", !.isOpen = FALSE]

toggleDropdown(c) == IF c.isOpen THEN closeDropdown(c) ELSE openDropdown(c)

selectStyle(c, styleKey) ==
  LET c1 == [c EXCEPT !.active = {k \in Options : k = styleKey},
                      !.currentStyleKey = styleKey]
      c2 == [c1 EXCEPT !.icon = styleKey]
  IN IF styleKey \notin InfoKeys THEN c1
     ELSE IF ~c.onStyleChange THEN closeDropdown(c2)
     ELSE closeDropdown([c2 EXCEPT !.calls = Append(c2.calls, MAP_STYLES[styleKey]),
                                   !.ownerStyle = MAP_STYLES[styleKey]])

\* the document's click listener
documentClick(c) == IF c.isOpen THEN closeDropdown(c) ELSE c

Began(c, op, arg) == [c EXCEPT !.op = op, !.arg = arg, !.calls = <<>>]

SwitcherIdle ==
  UNCHANGED <<surfaceVars, animVars, timers, hidden, obs, sectionVars, built, calls3D>>

\* map.addControl(styleSwitcher) calls onAdd
OnAdd ==
  /\ ~switcher.added /\ ~switcher.raised
  /\ switcher' = onAdd(switcher)
  /\ SwitcherIdle

\* a click on the button: stopPropagation keeps it from the document
ButtonClick ==
  /\ switcher.added
  /\ switcher' = toggleDropdown(Began(switcher, "button", "-"))
  /\ SwitcherIdle

\* a click anywhere else on the page
OutsideClick ==
  /\ switcher.added
  /\ switcher' = documentClick(Began(switcher, "outside", "-"))
  /\ SwitcherIdle

\* a click on an option of the open dropdown: selectStyle, then the click
\* reaches the document
OptionClick ==
  /\ switcher.added /\ switcher.display = "block"
  /\ \E k \in Options :
       switcher' = documentClick(selectStyle(Began(switcher, "option", k), k))
  /\ SwitcherIdle

\* a caller invokes selectStyle with a key of MAP_STYLES
SelectStyleCall ==
  /\ switcher.added
  /\ \E k \in StyleKeys :
       switcher' = selectStyle(Began(switcher, "selectStyle", k), k)
  /\ SwitcherIdle

InitSwitcher ==
  /\ layers = <<>>
  /\ sources = {}
  /\ styleReady = TRUE
  /\ loaded = TRUE
  /\ boundaryAnimationFrameId = 0
  /\ rafPending = {}
  /\ nextRafId = 1
  /\ loopEnd = "none"
  /\ timers = <<>>
  /\ built = NoCall
  /\ calls3D = 0
  /\ hidden = FALSE
  /\ obs = [op |-> "init", prev |-> "-", writes |-> {}, resched |-> FALSE,
            raised |-> FALSE, failed |-> {}, removedPending |-> FALSE,
            dup |-> FALSE, valid |-> FALSE, ld |-> TRUE, arg |-> NoArg]
  /\ composite = TRUE
  /\ mapStyle = "STREETS"
  /\ currentStyle = "STREETS"
  /\ mapLoaded = TRUE
  /\ styleLoaded = TRUE
  /\ dataLoaded = FALSE
  /\ polygon = NoPolygon
  /\ isInitialMount = FALSE
  /\ dataDirty = FALSE
  /\ styleDirty = FALSE
  /\ loadPending = FALSE
  /\ styleLoadHandlers = <<>>
  /\ markerConts = 0
  /\ selections = 0
  /\ activeChange = FALSE
  /\ mapHandlers = {}
  /\ eventHandlersRef = 0
  /\ popups = {}
  /\ currentPopupRef = 0
  /\ removed = FALSE
  /\ \E u \in InitialStyles, f \in BOOLEAN : switcher = StyleSwitcherControl(f, u)

NextSwitcher ==
  \/ OnAdd
  \/ ButtonClick
  \/ OutsideClick
  \/ OptionClick
  \/ SelectStyleCall

SpecSwitcher == InitSwitcher /\ [][NextSwitcher]_vars

\* the surface may raise from one setPaintProperty call of a frame
FrameCallbackRaises ==
  \E c \in PaintCallSet : loaded /\ getLayer(layers, c[1]) /\ Frame({c})

NextFault == Next \/ FrameCallbackRaises

SpecFault == Init /\ [][NextFault]_vars

\* ------------------------------------------------- the pure helpers
\* Numbers are fixed-point thousandths.  Math.cos is tabulated at the
\* multiples of pi/CosSteps; times are drawn on the grid period/CosSteps, where
\* the table is exact to a thousandth.
Milli == 1000
CosSteps == 12
CosTable == <<1000, 966, 866, 707, 500, 259, 0, -259, -500, -707, -866, -966, -1000>>

\* Math.cos(Math.PI * k / CosSteps), k in 0..CosSteps
cosPi(k) == CosTable[k + 1]

\* easeInOutSine(t), t = k / CosSteps
easeInOutSine(k) == (0 - (cosPi(k) - Milli)) \div 2

getAnimatedValue(currentTime, period, range) ==
  LET min == range[1]
      max == range[2]
      progress == ((currentTime % period) * CosSteps) \div period
      eased == easeInOutSine(progress)
  IN min + ((max - min) * eased) \div Milli

Periods == {12, 24, 48}
\* wallOpacityRange, edgeWidthRange, edgeOpacityRange
Ranges == {<<100, 400>>, <<2000, 6000>>, <<600, 1000>>}

\* a frame samples getAnimatedValue at currentTime; next is the sample one
\* grid step later
GetAnimatedValue ==
  /\ \E period \in Periods, range \in Ranges, k \in 0..MaxTicks :
       LET step == period \div CosSteps
           t == k * step
       IN built' = [fn |-> "getAnimatedValue", t |-> t, period |-> period,
                    range |-> range,
                    value |-> getAnimatedValue(t, period, range),
                    next |-> getAnimatedValue(t + step, period, range)]
  /\ UNCHANGED <<surfaceVars, animVars, timers, hidden, obs, sectionVars, calls3D,
                 switcher>>

\* ---------------------------------------------- the geometry builders
\* Coordinates are integers in units of 0.00001 degree.
RectEdgeWidth == 1      \* edgeWidth = 0.00001 of addBoundaryLayer
PolyEdgeWidth == 10     \* edgeWidth = 0.0001 of addBoundaryLayerFromPolygon

\* mutant of rectangleGeometry: the east wall is built around minLng
rectangleGeometry_EastAtWest(bounds) ==
  LET minLng == bounds[1][1]
      minLat == bounds[1][2]
      maxLng == bounds[2][1]
      maxLat == bounds[2][2]
      edgeWidth == RectEdgeWidth
      southWall == << <<minLng, minLat - edgeWidth>>, <<maxLng, minLat - edgeWidth>>,
                      <<maxLng, minLat + edgeWidth>>, <<minLng, minLat + edgeWidth>>,
                      <<minLng, minLat - edgeWidth>> >>
      northWall == << <<minLng, maxLat - edgeWidth>>, <<maxLng, maxLat - edgeWidth>>,
                      <<maxLng, maxLat + edgeWidth>>, <<minLng, maxLat + edgeWidth>>,
                      <<minLng, maxLat - edgeWidth>> >>
      westWall  == << <<minLng - edgeWidth, minLat>>, <<minLng + edgeWidth, minLat>>,
                      <<minLng + edgeWidth, maxLat>>, <<minLng - edgeWidth, maxLat>>,
                      <<minLng - edgeWidth, minLat>> >>
  IN [walls |-> <<southWall, northWall, westWall, westWall>>,
      outline |-> << <<minLng, minLat>>, <<maxLng, minLat>>, <<maxLng, maxLat>>,
                     <<minLng, maxLat>>, <<minLng, minLat>> >>]

\* southWall, northWall, westWall, eastWall, wallsGeoJSON and outlineGeoJSON
\* of addBoundaryLayer: the data of the two sources it adds
rectangleGeometry(bounds) ==
  LET minLng == bounds[1][1]
      minLat == bounds[1][2]
      maxLng == bounds[2][1]
      maxLat == bounds[2][2]
      edgeWidth == RectEdgeWidth
      southWall == << <<minLng, minLat - edgeWidth>>, <<maxLng, minLat - edgeWidth>>,
                      <<maxLng, minLat + edgeWidth>>, <<minLng, minLat + edgeWidth>>,
                      <<minLng, minLat - edgeWidth>> >>
      northWall == << <<minLng, maxLat - edgeWidth>>, <<maxLng, maxLat - edgeWidth>>,
                      <<maxLng, maxLat + edgeWidth>>, <<minLng, maxLat + edgeWidth>>,
                      <<minLng, maxLat - edgeWidth>> >>
      westWall  == << <<minLng - edgeWidth, minLat>>, <<minLng + edgeWidth, minLat>>,
                      <<minLng + edgeWidth, maxLat>>, <<minLng - edgeWidth, maxLat>>,
                      <<minLng - edgeWidth, minLat>> >>
      eastWall  == << <<maxLng - edgeWidth, minLat>>, <<maxLng + edgeWidth, minLat>>,
                      <<maxLng + edgeWidth, maxLat>>, <<maxLng - edgeWidth, maxLat>>,
                      <<maxLng - edgeWidth, minLat>> >>
  IN [walls |-> <<southWall, northWall, westWall, eastWall>>,
      outline |-> << <<minLng, minLat>>, <<maxLng, minLat>>, <<maxLng, maxLat>>,
                     <<minLng, maxLat>>, <<minLng, minLat>> >>]

\* the sources one addBoundaryLayer call adds, by name
rectangleSources(bounds) ==
  LET g == rectangleGeometry(bounds)
  IN (WallsSource :> g.walls) @@ (OutlineSource :> <<g.outline>>)

\* --- floating-point values of the polygon builder, in thousandths of a unit
Num(v) == [nan |-> FALSE, v |-> v]
NaN == [nan |-> TRUE, v |-> 0]
Plus(a, b)  == IF a.nan \/ b.nan THEN NaN ELSE Num(a.v + b.v)
Minus(a, b) == IF a.nan \/ b.nan THEN NaN ELSE Num(a.v - b.v)
Times(a, k) == IF a.nan THEN NaN ELSE Num(a.v * k)
\* a / b of two unit values; b is 0 only for a = 0, and 0 / 0 is NaN
Quot(a, b) == IF b = 0 THEN NaN ELSE Num((a * Milli) \div b)

\* Math.sqrt on the sums of squares the inputs produce (all perfect squares)
Sqrt(n) == CHOOSE r \in 0..n : r * r <= n /\ (r + 1) * (r + 1) > n

\* mutant of closeRing: the first point is pushed onto the caller's array
closeRing_Push(coords) ==
  LET firstPoint == coords[1]
      lastPoint == coords[Len(coords)]
      isClosed == firstPoint[1] = lastPoint[1] /\ firstPoint[2] = lastPoint[2]
  IN IF ~isClosed
     THEN [coords |-> Append(coords, firstPoint), caller |-> Append(coords, firstPoint)]
     ELSE [coords |-> coords, caller |-> coords]

\* "ensure the polygon is closed": coords is the local array, caller the
\* array polygon.coordinates[0] still refers to
closeRing(coords) ==
  LET firstPoint == coords[1]
      lastPoint == coords[Len(coords)]
      isClosed == firstPoint[1] = lastPoint[1] /\ firstPoint[2] = lastPoint[2]
  IN IF ~isClosed
     THEN [coords |-> Append(coords, firstPoint), caller |-> coords]
     ELSE [coords |-> coords, caller |-> coords]

\* the body of the wall loop for the edge coords[i], coords[i+1]
wallSegment(coords, i) ==
  LET lng1 == coords[i][1]
      lat1 == coords[i][2]
      lng2 == coords[i+1][1]
      lat2 == coords[i+1][2]
      dx == lng2 - lng1
      dy == lat2 - lat1
      length == Sqrt(dx * dx + dy * dy)
      perpX == Times(Quot(0 - dy, length), PolyEdgeWidth)
      perpY == Times(Quot(dx, length), PolyEdgeWidth)
      X(v) == Num(v * Milli)
  IN << <<Minus(X(lng1), perpX), Minus(X(lat1), perpY)>>,
        <<Minus(X(lng2), perpX), Minus(X(lat2), perpY)>>,
        <<Plus(X(lng2), perpX),  Plus(X(lat2), perpY)>>,
        <<Plus(X(lng1), perpX),  Plus(X(lat1), perpY)>>,
        <<Minus(X(lng1), perpX), Minus(X(lat1), perpY)>> >>

\* mutant of wallFeatures: the loop stops one edge early
wallFeatures_StopsEarly(coords) == [i \in 1..(Len(coords) - 2) |-> wallSegment(coords, i)]

\* for (let i = 0; i < coords.length - 1; i++) wallFeatures.push(wallSegment)
wallFeatures(coords) == [i \in 1..(Len(coords) - 1) |-> wallSegment(coords, i)]

\* the geometry addBoundaryLayerFromPolygon builds from a non-empty first ring
polygonGeometry(ring) ==
  LET c == closeRing(ring)
  IN [walls |-> wallFeatures(c.coords), outline |-> c.coords, caller |-> c.caller]

Coords == {0, 3, 7}
RectInputs == {<< <<a, b>>, <<c, d>> >> : a \in Coords, b \in Coords, c \in Coords, d \in Coords}
\* every distance between two of these is an integer
Points == {<<0, 0>>, <<3, 0>>, <<3, 4>>, <<0, 4>>}
RingInputs == UNION {[1..n -> Points] : n \in 1..MaxRing}

\* addBoundaryLayer builds the geometry of its two sources
BuildRectangle ==
  /\ \E b \in RectInputs :
       built' = [fn |-> "addBoundaryLayer", bounds |-> b, sources |-> rectangleSources(b)]
  /\ UNCHANGED <<surfaceVars, animVars, timers, hidden, obs, sectionVars, calls3D,
                 switcher>>

\* addBoundaryLayerFromPolygon builds from polygon.coordinates[0], and a
\* second call builds again from what the caller's polygon then holds
BuildPolygon ==
  /\ \E ring \in RingInputs :
       LET g == polygonGeometry(ring)
       IN built' = [fn |-> "addBoundaryLayerFromPolygon", ring |-> ring,
                    walls |-> g.walls, outline |-> g.outline, caller |-> g.caller,
                    again |-> polygonGeometry(g.caller)]
  /\ UNCHANGED <<surfaceVars, animVars, timers, hidden, obs, sectionVars, calls3D,
                 switcher>>

\* a caller asks supports3DBuildings about a style URL of MAP_STYLES or
\* about a URL that is not in it
Supports3DBuildings ==
  /\ \E url \in StyleKeys \cup {"other"} :
       built' = [fn |-> "supports3DBuildings", style |-> url,
                 result |-> supports3DBuildings(url)]
  /\ UNCHANGED <<surfaceVars, animVars, timers, hidden, obs, sectionVars, calls3D,
                 switcher>>

\* --- services/api.js
\* Math.min(...xs) and Math.max(...xs) of a non-empty array
RECURSIVE MathMin(_)
MathMin(xs) ==
  IF Len(xs) = 1 THEN xs[1]
  ELSE LET m == MathMin(Tail(xs)) IN IF xs[1] < m THEN xs[1] ELSE m

RECURSIVE MathMax(_)
MathMax(xs) ==
  IF Len(xs) = 1 THEN xs[1]
  ELSE LET m == MathMax(Tail(xs)) IN IF xs[1] > m THEN xs[1] ELSE m

\* the result calculateBounds gives for a missing or empty list
NullBounds == [null |-> TRUE, pts |-> <<>>]

\* mutant of calculateBounds: the north-east corner takes the minimum latitude
calculateBounds_NorthEastMinLat(observations) ==
  IF observations.null \/ Len(observations.list) = 0 THEN NullBounds
  ELSE LET lngs == [i \in 1..Len(observations.list) |-> observations.list[i].lng]
           lats == [i \in 1..Len(observations.list) |-> observations.list[i].lat]
       IN [null |-> FALSE,
           pts |-> << <<MathMin(lngs), MathMin(lats)>>, <<MathMax(lngs), MathMin(lats)>> >>]

calculateBounds(observations) ==
  IF observations.null \/ Len(observations.list) = 0 THEN NullBounds
  ELSE LET lngs == [i \in 1..Len(observations.list) |-> observations.list[i].lng]
           lats == [i \in 1..Len(observations.list) |-> observations.list[i].lat]
       IN [null |-> FALSE,
           pts |-> << <<MathMin(lngs), MathMin(lats)>>, <<MathMax(lngs), MathMax(lats)>> >>]

ObsCoords == {0 - 2, 0, 3}
Observation == [lng : ObsCoords, lat : ObsCoords]
ObservationInputs ==
  {[null |-> TRUE, list |-> <<>>]} \cup
  {[null |-> FALSE, list |-> l] : l \in UNION {[1..n -> Observation] : n \in 0..MaxObs}}

\* useMapData hands the fetched observations to calculateBounds
CalculateBounds ==
  /\ \E o \in ObservationInputs :
       built' = [fn |-> "calculateBounds", observations |-> o, bounds |-> calculateBounds(o)]
  /\ UNCHANGED <<surfaceVars, animVars, timers, hidden, obs, sectionVars, calls3D,
                 switcher>>

NextBuilder ==
  \/ GetAnimatedValue
  \/ BuildRectangle
  \/ BuildPolygon
  \/ Supports3DBuildings
  \/ CalculateBounds

SpecBuilder == Init /\ [][NextBuilder]_vars

\* ------------------------------------------------------------ properties
FrameOps == {"frame"}
StartOps == {"start", "startTimer"}
StopOps  == {"stop", "remove", "start", "startTimer"}
AddOps   == {"add", "addPolygon"}
BoundaryShown == \A l \in BoundaryLayers : getLayer(layers, l)
PresentCalls == {c \in PaintCallSet : getLayer(layers, c[1])}

\* C1: at most one requestAnimationFrame callback is pending at any time, and
\* it is the one boundaryAnimationFrameId names; right after two successive
\* startBoundaryAnimation calls on a loaded map exactly one is pending.
C1_OneLoop ==
  /\ Cardinality(rafPending) <= 1
  /\ rafPending \subseteq {boundaryAnimationFrameId}
  /\ (obs.op = "start" /\ obs.prev = "start" /\ obs.ld) => Cardinality(rafPending) = 1

C1_Witness ==
  obs.op = "start" /\ obs.prev = "start" /\ obs.ld /\ Cardinality(rafPending) = 1

\* C2: stopBoundaryAnimation raises nothing and leaves
\* boundaryAnimationFrameId null and no callback pending, whether or not an
\* animation was started; a second call in a row changes nothing.
C2_StopIdempotent ==
  /\ [](obs.op = "stop" =>
          boundaryAnimationFrameId = 0 /\ rafPending = {} /\ ~obs.raised)
  /\ [][(obs.op = "stop" /\ obs'.op = "stop") =>
          UNCHANGED <<layers, sources, boundaryAnimationFrameId, rafPending,
                      nextRafId, timers>>]_vars

C2_Witness ==
  obs.op = "stop" /\ obs.prev = "stop" /\ nextRafId > 1

C2_WitnessNeverStarted ==
  obs.op = "stop" /\ nextRafId = 1

\* C3 (as claimed): after removeBoundaryLayer, and until the next installer
\* call, no boundary layer or source is installed and no frame callback is
\* pending.
C3_HideStaysAbsent ==
  hidden => (~HasBoundaryParts(Surface) /\ rafPending = {})

\* C4 (as claimed): no installer or remover removes a boundary layer or
\* source while a frame callback is pending.
C4_StopBeforeRemove ==
  obs.op \in (AddOps \cup {"remove"}) => ~obs.removedPending

\* C5: after an installer call with valid input the map holds exactly one
\* instance of each boundary layer and both boundary sources, and no add is
\* attempted for a name that is still present.
C5_InstallIdempotent ==
  /\ ~obs.dup
  /\ \A l \in BoundaryLayers : Count(layers, l) <= 1
  /\ (obs.op \in AddOps /\ obs.valid /\ ~obs.raised) =>
        /\ \A l \in BoundaryLayers : Count(layers, l) = 1
        /\ BoundarySources \subseteq sources

C5_Witness ==
  /\ obs.op \in AddOps /\ obs.prev \in AddOps /\ obs.valid
  /\ BoundaryShown /\ CountKind(timers, "start") = 2

\* C7 (as claimed): once started, the loop ends only when
\* stopBoundaryAnimation is called; it never ends on its own while the
\* boundary is shown.
C7_LoopOnlyEndsByStop ==
  [][(rafPending # {} /\ rafPending' = {} /\ BoundaryShown') =>
        obs'.op \in StopOps]_vars

\* C7 (amended): a frame callback that runs while map.loaded() is true
\* reschedules itself; the loop ends only when stopBoundaryAnimation is
\* called or when a frame callback runs while map.loaded() is false.
C7_LoopEndsByStopOrNotLoaded ==
  /\ []((obs.op \in FrameOps /\ obs.ld) =>
          (obs.resched /\ rafPending = {boundaryAnimationFrameId}))
  /\ [][(rafPending # {} /\ rafPending' = {}) =>
          (obs'.op \in StopOps \/ (obs'.op \in FrameOps /\ ~obs'.ld))]_vars

C7_Witness ==
  obs.op \in FrameOps /\ ~obs.ld /\ BoundaryShown /\ rafPending = {}
    /\ boundaryAnimationFrameId # 0

\* C8: a frame callback that runs while map.loaded() is false (or with
\* animations disabled) writes no paint property and schedules no frame.
C8_NotRenderableNoWork ==
  (obs.op \in FrameOps /\ (~obs.ld \/ ~enableAnimations)) =>
     (obs.writes = {} /\ ~obs.resched /\ rafPending = {})

C8_Witness ==
  obs.op \in FrameOps /\ ~obs.ld /\ BoundaryShown /\ obs.writes = {}

\* C9: in a frame on a loaded map paint properties are written exactly for
\* the boundary layers that exist; missing ones are skipped without error
\* and the next frame is requested.
C9_MissingLayersSkipped ==
  (obs.op \in FrameOps /\ obs.ld /\ obs.failed = {}) =>
     /\ obs.writes = PresentCalls
     /\ ~obs.raised
     /\ obs.resched
     /\ Cardinality(rafPending) = 1

C9_Witness ==
  /\ obs.op \in FrameOps /\ obs.ld /\ obs.resched
  /\ ~getLayer(layers, WallsLayer) /\ ~getLayer(layers, TopEdgeLayer)
  /\ obs.writes = {}

\* C10 (as claimed): when one setPaintProperty call of a frame raises, the
\* other properties of the frame are still written and the next frame is
\* still requested.
C10_FailureConfined ==
  (obs.op \in FrameOps /\ obs.raised) =>
     /\ obs.writes = PresentCalls \ obs.failed
     /\ obs.resched
     /\ rafPending # {}

\* every timer, event handler and effect of the component has run
Quiescent ==
  /\ EffectsFlushed /\ ~loadPending
  /\ styleLoadHandlers = <<>> /\ timers = <<>> /\ markerConts = 0
  /\ styleReady /\ mapLoaded /\ dataLoaded

\* C6 (as claimed): the style-change effect leaves no frame callback
\* pending and no boundary installed, and once the new style has loaded and
\* every re-attach timer has fired the boundary is installed again with
\* exactly one frame callback pending.
C6_StyleChangeRestoresLoop ==
  /\ obs.op = "styleEffect" => (rafPending = {} /\ ~HasBoundaryParts(Surface))
  /\ Cardinality(rafPending) <= 1
  /\ (Quiescent /\ activeChange) => (BoundaryShown /\ Cardinality(rafPending) = 1)

\* C6 (amended): as above, but after the transition at most one frame
\* callback is pending: exactly one when the restarted loop is running,
\* none when the start or a later frame found map.loaded() false.
C6_StyleChangeRestoresBoundary ==
  /\ obs.op = "styleEffect" => (rafPending = {} /\ ~HasBoundaryParts(Surface))
  /\ Cardinality(rafPending) <= 1
  /\ (Quiescent /\ activeChange) =>
        /\ BoundaryShown
        /\ loopEnd \in {"running", "notLoaded"}
        /\ loopEnd = "running" => rafPending = {boundaryAnimationFrameId}
        /\ loopEnd = "notLoaded" => rafPending = {}

C6_Witness ==
  /\ Quiescent /\ activeChange /\ BoundaryShown /\ loaded
  /\ loopEnd = "running" /\ Cardinality(rafPending) = 1

\* ------------------------------------------- properties of the helpers
Abs(x) == IF x < 0 THEN 0 - x ELSE x
MinOf(S) == CHOOSE x \in S : \A y \in S : x <= y
MaxOf(S) == CHOOSE x \in S : \A y \in S : x >= y
AnimCall == built.fn = "getAnimatedValue"
RectCall == built.fn = "addBoundaryLayer"
PolyCall == built.fn = "addBoundaryLayerFromPolygon"

\* C11 (as claimed): getAnimatedValue returns min when t mod period = 0 and
\* a value within a tenth of the range of max when t mod period = period/2.
C11_PeakAtMidPeriod ==
  AnimCall =>
    LET min == built.range[1]
        max == built.range[2]
        phase == built.t % built.period
    IN /\ phase = 0 => built.value = min
       /\ 2 * phase = built.period => 10 * (max - built.value) <= max - min

\* C12 (as claimed): two samples of getAnimatedValue one time step apart
\* differ by at most 2 * (max - min) * step / period, also across a multiple
\* of the period.
C12_ContinuousAcrossPeriod ==
  AnimCall =>
    Abs(built.next - built.value) * CosSteps <= 2 * (built.range[2] - built.range[1])

ValidBounds(b) == b[1][1] < b[2][1] /\ b[1][2] < b[2][2]

BBox(pts) ==
  LET xs == {p[1] : p \in pts}
      ys == {p[2] : p \in pts}
  IN << <<MinOf(xs), MinOf(ys)>>, <<MaxOf(xs), MaxOf(ys)>> >>

RingPoints(r) == {r[i] : i \in 1..Len(r)}

\* a closed ring of 4 distinct corners
ClosedRing4(r) ==
  /\ Len(r) = 5 /\ r[1] = r[5]
  /\ Cardinality({r[i] : i \in 1..4}) = 4

CornersSource == "observation-boundary-corners"

\* C14 (as claimed): for valid bounds the rectangle build also yields
\* exactly 4 corner pillars, each a closed square ring centred on one of the
\* corners (minLng,minLat), (maxLng,minLat), (maxLng,maxLat), (minLng,maxLat).
C14_RectanglePillars ==
  (RectCall /\ ValidBounds(built.bounds)) =>
    /\ CornersSource \in DOMAIN built.sources
    /\ LET pillars == built.sources[CornersSource]
           b == built.bounds
           corners == << b[1], <<b[2][1], b[1][2]>>, b[2], <<b[1][1], b[2][2]>> >>
       IN /\ Len(pillars) = 4
          /\ \A k \in 1..4 :
               LET box == BBox(RingPoints(pillars[k]))
               IN /\ ClosedRing4(pillars[k])
                  /\ box[1][1] + box[2][1] = 2 * corners[k][1]
                  /\ box[1][2] + box[2][2] = 2 * corners[k][2]
                  /\ box[2][1] - box[1][1] = box[2][2] - box[1][2]

ClosedInput == Len(built.ring) >= 3 /\ built.ring[1] = built.ring[Len(built.ring)]

\* wall w runs along the edge from p to q: its two ends are centred on them
Follows(w, p, q) ==
  \/ \E k \in 1..5 : w[k][1].nan \/ w[k][2].nan
  \/ /\ w[1][1].v + w[4][1].v = 2 * p[1] * Milli /\ w[1][2].v + w[4][2].v = 2 * p[2] * Milli
     /\ w[2][1].v + w[3][1].v = 2 * q[1] * Milli /\ w[2][2].v + w[3][2].v = 2 * q[2] * Milli

\* C15: for a closed ring of N >= 3 vertices addBoundaryLayerFromPolygon
\* builds exactly N-1 wall segments, the i-th along the i-th consecutive
\* vertex pair, and a second build from the same polygon yields the same
\* walls and outline.
C15_PolygonWalls ==
  (PolyCall /\ ClosedInput) =>
    /\ Len(built.walls) = Len(built.ring) - 1
    /\ \A i \in 1..Len(built.walls) :
         /\ Len(built.walls[i]) = 5 /\ built.walls[i][1] = built.walls[i][5]
         /\ Follows(built.walls[i], built.ring[i], built.ring[i+1])
    /\ built.again.walls = built.walls
    /\ built.again.outline = built.outline

C15_Witness ==
  /\ PolyCall /\ built.ring = << <<0, 0>>, <<3, 0>>, <<3, 4>>, <<0, 0>> >>
  /\ Len(built.walls) = 3 /\ built.again.walls = built.walls

\* C16: the outline ring built by addBoundaryLayerFromPolygon has its first
\* vertex equal to its last; an input ring that is not closed gets its first
\* vertex appended once, a closed one is kept as it is, and the caller's
\* array is left as it was (so a second build appends nothing more).
C16_PolygonClosure ==
  PolyCall =>
    LET n == Len(built.ring)
    IN /\ built.outline[1] = built.outline[Len(built.outline)]
       /\ built.ring[1] # built.ring[n] => built.outline = Append(built.ring, built.ring[1])
       /\ built.ring[1] = built.ring[n] => built.outline = built.ring
       /\ built.caller = built.ring
       /\ built.again.outline = built.outline

C16_Witness ==
  /\ PolyCall /\ built.ring = << <<0, 0>>, <<3, 0>>, <<3, 4>> >>
  /\ Len(built.outline) = 4 /\ built.caller = built.ring

C16_WitnessClosed ==
  /\ PolyCall /\ built.ring = << <<0, 0>>, <<3, 0>>, <<3, 4>>, <<0, 0>> >>
  /\ built.outline = built.ring

\* C17 (as claimed): a zero-length edge yields no wall segment and no
\* division by zero: the walls are one per edge of non-zero length and hold
\* no NaN coordinate.
C17_DegenerateEdgeSkipped ==
  PolyCall =>
    LET c == built.outline
        nonZero == {i \in 1..(Len(c) - 1) : c[i] # c[i+1]}
    IN /\ Len(built.walls) = Cardinality(nonZero)
       /\ \A i \in 1..Len(built.walls) : \A k \in 1..5 :
            ~built.walls[i][k][1].nan /\ ~built.walls[i][k][2].nan

\* a bounds argument that is null or whose two corners coincide
PointBounds(b) == b.null \/ (Len(b.pts) = 2 /\ b.pts[1] = b.pts[2])

\* a polygon argument without a first ring, or whose first ring has fewer
\* than 3 coordinates once closed
ShortRing(poly) ==
  \/ poly.null \/ ~poly.hasCoords \/ Len(poly.coordinates) = 0
  \/ Len(poly.coordinates[1]) = 0
  \/ Len(closeRing(poly.coordinates[1]).coords) < 3

\* C18 (as claimed): addBoundaryLayer given null or point-sized bounds, and
\* addBoundaryLayerFromPolygon given a ring with fewer than 3 vertices after
\* closing, raise nothing and install no boundary source or layer.
C18_InvalidInputRejected ==
  (\/ obs.op = "add" /\ PointBounds(obs.arg)
   \/ obs.op = "addPolygon" /\ ShortRing(obs.arg)) =>
     (~obs.raised /\ ~obs.valid)

\* stacking rank of a custom layer: boundary below buildings below markers
Rank(id) ==
  IF id \in BoundaryLayers THEN 1 ELSE IF id = BuildingsLayer THEN 2 ELSE 3

\* C19 (as claimed): in the map's layer list, bottom to top, every present
\* marker layer is above the 3d-buildings layer, which is above every
\* present boundary layer.
C19_StackingOrder ==
  \A i \in 1..Len(layers) : \A j \in (i+1)..Len(layers) :
     Rank(layers[i]) <= Rank(layers[j])

RetryPending == CountKind(timers, "retry")

\* C20: a direct add3DBuildingsLayer call with the composite source absent
\* sets exactly one retry timer and a call with the source present sets
\* none; a retry that fires sets no timer, whether or not the source has
\* appeared; and eventually no timer is pending, also when the source never
\* becomes available.
C20_RetryBounded ==
  /\ [][obs'.op = "add3D" =>
          RetryPending' = RetryPending +
             (IF ~composite /\ ~getLayer(layers, BuildingsLayer) THEN 1 ELSE 0)]_vars
  /\ [][obs'.op = "retry" => Len(timers') = Len(timers) - 1]_vars
  /\ <>[](timers = <<>>)

C20_Witness ==
  /\ obs.op = "retry" /\ ~composite /\ ~getLayer(layers, BuildingsLayer)
  /\ calls3D > 0 /\ timers = <<>>

\* C21 (as claimed): supports3DBuildings returns true for every style URL of
\* MAP_STYLES.
C21_AllStylesSupport3D ==
  (built.fn = "supports3DBuildings" /\ built.style \in StyleKeys) => built.result

\* C22: calculateBounds returns null for a missing or empty observation
\* list, and otherwise a box whose south-west corner is not beyond its
\* north-east corner on either axis and that contains every observation.
C22_BoundsContainAll ==
  built.fn = "calculateBounds" =>
    LET o == built.observations
        b == built.bounds
    IN IF o.null \/ Len(o.list) = 0 THEN b.null
       ELSE /\ ~b.null /\ Len(b.pts) = 2
            /\ b.pts[1][1] <= b.pts[2][1] /\ b.pts[1][2] <= b.pts[2][2]
            /\ \A i \in 1..Len(o.list) :
                 /\ b.pts[1][1] <= o.list[i].lng /\ o.list[i].lng <= b.pts[2][1]
                 /\ b.pts[1][2] <= o.list[i].lat /\ o.list[i].lat <= b.pts[2][2]

C22_Witness ==
  /\ built.fn = "calculateBounds"
  /\ built.observations.list = <<[lng |-> 3, lat |-> 0 - 2], [lng |-> 0, lat |-> 3]>>
  /\ built.bounds.pts = << <<0, 0 - 2>>, <<3, 3>> >>

C22_WitnessEmpty ==
  built.fn = "calculateBounds" /\ ~built.observations.null /\ built.bounds.null

\* C23 (as claimed): at most one marker handler bundle (cluster click,
\* cluster mouseenter/mouseleave, marker click, marker mouseenter/mouseleave)
\* is registered on the map, and a registered bundle is the one
\* eventHandlersRef records, whatever the interleaving of the
\* addObservationMarkers calls.
C23_NoStaleHandlers ==
  /\ Cardinality(mapHandlers) <= 1
  /\ mapHandlers \subseteq {eventHandlersRef}

\* C24 (as claimed): the style-change procedure runs only when the selected
\* style differs from the style the map was last given.
C24_StyleChangeOnlyOnNewStyle ==
  [][obs'.op = "styleEffect" => currentStyle # mapStyle]_vars

\* C25 (as claimed): the 3d-buildings layer is on the map only while the
\* map's current style supports 3D buildings, and at most once.
C25_BuildingsOnlyOnSupportingStyle ==
  /\ getLayer(layers, BuildingsLayer) => supports3DBuildings(mapStyle)
  /\ Count(layers, BuildingsLayer) <= 1

\* C28 (as claimed): addObservationMarkers never calls addSource for the
\* observations source while that source is still present.
C28_NoDuplicateMarkerSource ==
  obs.op = "markers" => ~obs.dup

\* C29 (as claimed): an installer call that returns early on invalid input
\* leaves the boundary layers and sources and the animation state as they
\* were.
C29_RejectedInputChangesNothing ==
  [][(obs'.op \in AddOps /\ ~obs'.valid) =>
        UNCHANGED <<layers, sources, boundaryAnimationFrameId, rafPending>>]_vars

\* C26 (as claimed): at most one observation popup is open, and
\* currentPopupRef names it exactly when one is open.
C26_OnePopup ==
  /\ Cardinality(popups) <= 1
  /\ (currentPopupRef # 0) <=> (popups # {})
  /\ currentPopupRef # 0 => currentPopupRef \in popups

\* the callbacks of the timers, each of which starts with a call on the map
TimerOps == {"loadTimer", "boundaryTimer", "reattach", "startTimer", "retry",
             "popupTimer"}

\* C27 (as claimed): once the cleanup has run, no timer callback and no
\* frame callback runs against the removed map.
C27_NoWorkAfterCleanup ==
  [][removed => obs'.op \notin (TimerOps \cup FrameOps)]_vars

\* C30 (as claimed): once onAdd has run, isOpen is true exactly when the
\* dropdown is displayed, exactly one option carries the active class and it
\* is the option of currentStyleKey, and a selectStyle(k) call invokes
\* onStyleChange exactly once, with styles[k], and leaves the dropdown closed.
C30_SwitcherInvariant ==
  switcher.added =>
    /\ switcher.isOpen <=> (switcher.display = "block")
    /\ switcher.active = {switcher.currentStyleKey}
    /\ switcher.op \in {"selectStyle", "option"} =>
         /\ switcher.onStyleChange => switcher.calls = <<MAP_STYLES[switcher.arg]>>
         /\ switcher.display = "none"

====
